---- MODULE Spec2Model ----
(***************************************************************************)
(* A model of the EMH CASA gateway client (package emhcasa, client.go):    *)
(* the Client facade (NewClient, DiscoverMeterID, GetMeterValues,          *)
(* MeterID), the logical-name to OBIS conversion and the value conversion. *)
(* Strings are sequences of one-byte strings, so that splitting, slicing,  *)
(* parsing and formatting are computed byte by byte as the Go code does.   *)
(***************************************************************************)
EXTENDS Integers, Sequences, FiniteSets, TLC

VARIABLES
    args,       \* the arguments the caller hands to NewClient
    gw,         \* the gateway: what it answers on each of its endpoints
    phase,      \* "none" before NewClient, then "ready" (a client) or "failed"
    uri,        \* Client.uri
    host,       \* hostHeaderTransport.host
    meterID,    \* Client.meterID
    ret,        \* what the last call on the client returned
    reqs,       \* the requests the last call issued, in order
    obisIn,     \* the logical name handed to convertToOBIS
    obisOut,    \* <<>> before the call, then <<what convertToOBIS returned>>
    pc,         \* where each goroutine that shares the client stands
    loc,        \* the local variables of each goroutine
    wins,       \* the identities the discovery runs so far have computed
    srv,        \* the gateway's digest authentication state
    cache,      \* the digest transport's cached challenge, <<>> when none
    rt,         \* the round trip the digest transport is carrying out
    wire        \* the requests that reached the base transport, in order

envVars == <<args, gw>>
clientVars == <<phase, uri, host, meterID>>
callVars == <<ret, reqs>>
obisVars == <<obisIn, obisOut>>
concVars == <<pc, loc, wins>>
digestVars == <<srv, cache, rt, wire>>

vars ==
    <<args, gw, phase, uri, host, meterID, ret, reqs, obisIn, obisOut,
      pc, loc, wins, srv, cache, rt, wire>>

\* No goroutines besides the caller's.
ConcIdle == pc = <<>> /\ loc = <<>> /\ wins = {}

\* The transport chain left out of the picture.
DigestIdle == srv = <<>> /\ cache = <<>> /\ rt = <<>> /\ wire = <<>>

----------------------------------------------------------------------------
(* Bytes and strings                                                       *)

Digits == <<"0", "1", "2", "3", "4", "5", "6", "7", "8", "9">>

LowerLetters ==
    <<"a", "b", "c", "d", "e", "f", "g", "h", "i", "j", "k", "l", "m",
      "n", "o", "p", "q", "r", "s", "t", "u", "v", "w", "x", "y", "z">>

UpperLetters ==
    <<"A", "B", "C", "D", "E", "F", "G", "H", "I", "J", "K", "L", "M",
      "N", "O", "P", "Q", "R", "S", "T", "U", "V", "W", "X", "Y", "Z">>

\* The position of byte ch in the table tab, 0 when it is not in it.
IndexIn(tab, ch) ==
    IF \E i \in 1..Len(tab) : tab[i] = ch
    THEN CHOOSE i \in 1..Len(tab) : tab[i] = ch
    ELSE 0

\* strings.Index(s, sep) for a one-byte separator: 0-based, -1 when absent.
Index(s, sep) ==
    IF \E i \in 1..Len(s) : s[i] = sep
    THEN (CHOOSE i \in 1..Len(s) : s[i] = sep /\ \A j \in 1..(i - 1) : s[j] # sep) - 1
    ELSE -1

\* The Go slice s[lo:hi] (0-based, hi exclusive).
Slice(s, lo, hi) == SubSeq(s, lo + 1, hi)

\* strings.SplitN(s, sep, 2)[0]: the part left of the first separator.
SplitFirst(s, sep) ==
    LET cut(i) == IF i = -1 THEN s ELSE Slice(s, 0, i)
    IN  cut(Index(s, sep))

----------------------------------------------------------------------------
(* strconv.ParseInt(s, 16, 64) and fmt's %d, as convertToOBIS uses them    *)

HexBase == 16

\* The value strconv gives one digit byte: 0..9, 10..35 for a letter of
\* either case, -1 for a byte that is no digit in any base.
DigitVal(ch) ==
    LET val(digit, lower, upper) ==
            IF digit # 0 THEN digit - 1
            ELSE IF lower # 0 THEN lower + 9
            ELSE IF upper # 0 THEN upper + 9
            ELSE -1
    IN  val(IndexIn(Digits, ch), IndexIn(LowerLetters, ch), IndexIn(UpperLetters, ch))

IsDigitIn(ch, base) ==
    LET in(d) == d >= 0 /\ d < base
    IN  in(DigitVal(ch))

\* strconv.ParseUint without a base prefix: every byte must be a digit of
\* the base and the string must not be empty.
RECURSIVE UintValue(_, _)
UintValue(s, base) ==
    IF Len(s) = 0 THEN 0
    ELSE UintValue(SubSeq(s, 1, Len(s) - 1), base) * base + DigitVal(s[Len(s)])

ParseUint(s, base) ==
    IF Len(s) = 0 \/ \E i \in 1..Len(s) : ~IsDigitIn(s[i], base)
    THEN [err |-> TRUE, n |-> 0]
    ELSE [err |-> FALSE, n |-> UintValue(s, base)]

\* strconv.ParseInt: an optional leading sign, then ParseUint on the rest.
ParseInt(s, base) ==
    LET signed(neg, un) == [err |-> un.err, n |-> IF neg THEN 0 - un.n ELSE un.n]
    IN  IF Len(s) = 0 THEN [err |-> TRUE, n |-> 0]
        ELSE IF s[1] \in {"+", "-"} THEN signed(s[1] = "-", ParseUint(Tail(s), base))
        ELSE ParseUint(s, base)

\* fmt.Sprintf("%d", n): decimal digits, a minus sign for a negative number.
RECURSIVE NatDecimal(_)
NatDecimal(n) ==
    IF n < 10 THEN <<Digits[n + 1]>>
    ELSE NatDecimal(n \div 10) \o <<Digits[(n % 10) + 1]>>

Decimal(n) == IF n < 0 THEN <<"-">> \o NatDecimal(0 - n) ELSE NatDecimal(n)

----------------------------------------------------------------------------
(* convertToOBIS                                                           *)

LogicalNameLen == 12

\* The byte offsets of the C, D and E pairs in the left segment.
OffsetC == 4
OffsetD == 6
OffsetE == 8
PairLen == 2

ObisError == [err |-> TRUE, obis |-> <<>>]

\* The pair of bytes of the left segment hex at a byte offset.
Pair(hex, offset) == Slice(hex, offset, offset + PairLen)

ObisKey(c, d, e) ==
    [err |-> FALSE,
     obis |-> Decimal(c) \o <<".">> \o Decimal(d) \o <<".">> \o Decimal(e)]

\* A variant whose digit table holds the lower-case letters only.
convertToOBIS_LowerOnly(logicalName) ==
    LET lower(p) == \A i \in 1..Len(p) : IndexIn(UpperLetters, p[i]) = 0
        key(hex, c, d, e) ==
            IF c.err \/ d.err \/ e.err \/ ~lower(Slice(hex, OffsetC, OffsetE + PairLen))
            THEN ObisError
            ELSE ObisKey(c.n, d.n, e.n)
        split(hex) ==
            IF Len(hex) # LogicalNameLen THEN ObisError
            ELSE key(hex, ParseInt(Pair(hex, OffsetC), HexBase),
                     ParseInt(Pair(hex, OffsetD), HexBase),
                     ParseInt(Pair(hex, OffsetE), HexBase))
    IN  split(SplitFirst(logicalName, "."))

\* A variant that only asks for enough bytes to hold the three pairs.
convertToOBIS_NoLen(logicalName) ==
    LET key(c, d, e) ==
            IF c.err \/ d.err \/ e.err THEN ObisError ELSE ObisKey(c.n, d.n, e.n)
        split(hex) ==
            IF Len(hex) < OffsetE + PairLen THEN ObisError
            ELSE key(ParseInt(Pair(hex, OffsetC), HexBase),
                     ParseInt(Pair(hex, OffsetD), HexBase),
                     ParseInt(Pair(hex, OffsetE), HexBase))
    IN  split(SplitFirst(logicalName, "."))

\* convertToOBIS(logicalName): the key "C.D.E", or an error.
convertToOBIS(logicalName) ==
    LET key(c, d, e) ==
            IF c.err THEN ObisError
            ELSE IF d.err THEN ObisError
            ELSE IF e.err THEN ObisError
            ELSE ObisKey(c.n, d.n, e.n)
        split(hex) ==
            IF Len(hex) # LogicalNameLen THEN ObisError
            ELSE key(ParseInt(Pair(hex, OffsetC), HexBase),
                     ParseInt(Pair(hex, OffsetD), HexBase),
                     ParseInt(Pair(hex, OffsetE), HexBase))
    IN  split(SplitFirst(logicalName, "."))

----------------------------------------------------------------------------
(* The gateway's answers, and getJSON                                      *)

StatusOK == 200

\* One HTTP exchange as getJSON sees it: whether httpClient.Get returned a
\* response, its status code, whether the body could be read, whether it
\* decodes into the target type, and the decoded value.
NetError == [sent |-> FALSE, status |-> 0, read |-> FALSE, json |-> FALSE, body |-> <<>>]
StatusError(code) ==
    [sent |-> TRUE, status |-> code, read |-> TRUE, json |-> TRUE, body |-> <<>>]
ReadError ==
    [sent |-> TRUE, status |-> StatusOK, read |-> FALSE, json |-> FALSE, body |-> <<>>]
BadJSON ==
    [sent |-> TRUE, status |-> StatusOK, read |-> TRUE, json |-> FALSE, body |-> <<>>]
Document(value) ==
    [sent |-> TRUE, status |-> StatusOK, read |-> TRUE, json |-> TRUE, body |-> value]

\* getJSON's error for an exchange, "" when it returns nil.
getJSON(resp) ==
    IF ~resp.sent THEN "request failed"
    ELSE IF resp.status # StatusOK THEN "unexpected status code"
    ELSE IF ~resp.read THEN "failed to read response body"
    ELSE IF ~resp.json THEN "failed to unmarshal JSON"
    ELSE ""

\* The three endpoints, as the URIs the client formats for them.
ContractsRequest(base) == [base |-> base, path |-> "/json/metering/derived", id |-> ""]
ContractRequest(base, id) ==
    [base |-> base, path |-> "/json/metering/derived/%s", id |-> id]
ReadingRequest(base, id) ==
    [base |-> base, path |-> "/json/metering/origin/%s/extended", id |-> id]

\* What the gateway g answers to a request.
Answer(g, req) ==
    IF req.path = "/json/metering/derived" THEN g.contracts
    ELSE IF req.path = "/json/metering/derived/%s" THEN g.detail[req.id]
    ELSE IF req.id \in DOMAIN g.reading THEN g.reading[req.id]
    ELSE StatusError(404)

----------------------------------------------------------------------------
(* DiscoverMeterID                                                         *)

\* A variant of the loop body that takes the last sensor domain.
contractOutcome_LastDomain(resp) ==
    LET pick(domains) ==
            IF Len(domains) > 0
            THEN [next |-> "return", id |-> domains[Len(domains)]]
            ELSE [next |-> "continue", id |-> ""]
    IN  IF getJSON(resp) # "" THEN [next |-> "continue", id |-> ""]
        ELSE pick(resp.body.sensorDomains)

\* The body of the loop over the contract identifiers, for the answer to
\* one contract's detail request: go on with the next identifier, or
\* return with the meter identity to store.
contractOutcome(resp) ==
    LET pick(domains) ==
            IF Len(domains) > 0
            THEN [next |-> "return", id |-> domains[1]]
            ELSE [next |-> "continue", id |-> ""]
    IN  IF getJSON(resp) # "" THEN [next |-> "continue", id |-> ""]
        ELSE pick(resp.body.sensorDomains)

NotFound(sent) ==
    [err |-> "no contract with sensor domains found", id |-> "", reqs |-> sent]

\* A variant of the loop that gives up at the first failed detail fetch.
RECURSIVE scanContracts_StopAtError(_, _, _, _, _)
scanContracts_StopAtError(g, base, contracts, i, sent) ==
    LET step(resp, out, sentNow) ==
            IF getJSON(resp) # "" THEN NotFound(sentNow)
            ELSE IF out.next = "return"
                 THEN [err |-> "", id |-> out.id, reqs |-> sentNow]
            ELSE scanContracts_StopAtError(g, base, contracts, i + 1, sentNow)
        fetch(req) ==
            step(Answer(g, req), contractOutcome(Answer(g, req)), Append(sent, req))
    IN  IF i > Len(contracts) THEN NotFound(sent)
        ELSE fetch(ContractRequest(base, contracts[i]))

\* A variant of the loop that has asked for the next contract document by
\* the time it finds the winner.
RECURSIVE scanContracts_FetchAhead(_, _, _, _, _)
scanContracts_FetchAhead(g, base, contracts, i, sent) ==
    LET step(out, sentNow) ==
            IF out.next = "return"
            THEN [err |-> "", id |-> out.id,
                  reqs |-> IF i < Len(contracts)
                           THEN Append(sentNow, ContractRequest(base, contracts[i + 1]))
                           ELSE sentNow]
            ELSE scanContracts_FetchAhead(g, base, contracts, i + 1, sentNow)
        fetch(req) == step(contractOutcome(Answer(g, req)), Append(sent, req))
    IN  IF i > Len(contracts) THEN NotFound(sent)
        ELSE fetch(ContractRequest(base, contracts[i]))

\* The loop of DiscoverMeterID from the i-th identifier on; sent is the
\* requests issued so far.
RECURSIVE scanContracts(_, _, _, _, _)
scanContracts(g, base, contracts, i, sent) ==
    LET step(out, sentNow) ==
            IF out.next = "return"
            THEN [err |-> "", id |-> out.id, reqs |-> sentNow]
            ELSE scanContracts(g, base, contracts, i + 1, sentNow)
        fetch(req) == step(contractOutcome(Answer(g, req)), Append(sent, req))
    IN  IF i > Len(contracts) THEN NotFound(sent)
        ELSE fetch(ContractRequest(base, contracts[i]))

\* DiscoverMeterID against gateway g: its error ("" for nil), the identity
\* it stores when it returns nil, and the requests it issues.
discoverMeterID(g, base) ==
    LET list(req, resp) ==
            IF getJSON(resp) # ""
            THEN [err |-> "failed to get contracts", id |-> "", reqs |-> <<req>>]
            ELSE scanContracts(g, base, resp.body, 1, <<req>>)
    IN  list(ContractsRequest(base), Answer(g, ContractsRequest(base)))

----------------------------------------------------------------------------
(* Numbers: a reading is the exact decimal m * 10^e, kept in the form      *)
(* whose mantissa has no trailing zero (binary rounding is not modelled).  *)

RECURSIVE Norm(_)
Norm(x) ==
    IF x.m = 0 THEN [m |-> 0, e |-> 0]
    ELSE IF x.m % 10 = 0 THEN Norm([m |-> x.m \div 10, e |-> x.e + 1])
    ELSE x

Mul(x, y) == Norm([m |-> x.m * y.m, e |-> x.e + y.e])

\* math.Pow(10, k)
Pow10(k) == [m |-> 1, e |-> k]

\* x / d for a divisor d that is a power of ten
RECURSIVE Quo(_, _)
Quo(x, d) == IF d = 1 THEN Norm(x) ELSE Quo([m |-> x.m, e |-> x.e - 1], d \div 10)

\* strconv.ParseFloat(s, 64) on decimal notation: an optional sign, digits
\* with at most one point among them, and at least one digit.
ParseFloat(s) ==
    LET number(neg, digits, fracLen) ==
            IF Len(digits) = 0 \/ \E i \in 1..Len(digits) : ~IsDigitIn(digits[i], 10)
            THEN [err |-> TRUE, m |-> 0, e |-> 0]
            ELSE [err |-> FALSE] @@
                 Norm([m |-> IF neg THEN 0 - UintValue(digits, 10)
                             ELSE UintValue(digits, 10),
                       e |-> 0 - fracLen])
        pointed(neg, body, point) ==
            IF point = -1 THEN number(neg, body, 0)
            ELSE number(neg, Slice(body, 0, point) \o Slice(body, point + 1, Len(body)),
                        Len(body) - (point + 1))
        unsigned(neg, body) == pointed(neg, body, Index(body, "."))
    IN  IF Len(s) > 0 /\ s[1] \in {"+", "-"} THEN unsigned(s[1] = "-", Tail(s))
        ELSE unsigned(FALSE, s)

----------------------------------------------------------------------------
(* GetMeterValues                                                          *)

UnitW == 27
UnitWh == 30
UnitA == 33
UnitV == 35
UnitHz == 44
WhPerKWh == 1000

Dropped == [keep |-> FALSE, obis |-> <<>>, val |-> [m |-> 0, e |-> 0]]

Stored(obis, val) == [keep |-> TRUE, obis |-> obis, val |-> val]

Value(raw) == [m |-> raw.m, e |-> raw.e]

\* A variant that stores an item whatever its unit code.
itemEntry_AnyUnit(item) ==
    LET switch(obis, val) ==
            IF item.unit = UnitWh THEN Stored(obis, Quo(val, WhPerKWh))
            ELSE Stored(obis, val)
        scaled(obis, raw) ==
            IF raw.err THEN Dropped
            ELSE switch(obis, Mul(Value(raw), Pow10(item.scaler)))
        named(obis) ==
            IF obis.err THEN Dropped ELSE scaled(obis.obis, ParseFloat(item.value))
    IN  named(convertToOBIS(item.logicalName))

\* A variant that scales watt-hours like every other unit.
itemEntry_NoKWh(item) ==
    LET switch(obis, val) ==
            IF item.unit \in {UnitW, UnitWh, UnitA, UnitV, UnitHz}
            THEN Stored(obis, val)
            ELSE Dropped
        scaled(obis, raw) ==
            IF raw.err THEN Dropped
            ELSE switch(obis, Mul(Value(raw), Pow10(item.scaler)))
        named(obis) ==
            IF obis.err THEN Dropped ELSE scaled(obis.obis, ParseFloat(item.value))
    IN  named(convertToOBIS(item.logicalName))

\* A variant that ignores the scaler.
itemEntry_NoScaler(item) ==
    LET switch(obis, val) ==
            IF item.unit = UnitWh THEN Stored(obis, Quo(val, WhPerKWh))
            ELSE IF item.unit \in {UnitW, UnitA, UnitV, UnitHz} THEN Stored(obis, val)
            ELSE Dropped
        scaled(obis, raw) ==
            IF raw.err THEN Dropped ELSE switch(obis, Norm(Value(raw)))
        named(obis) ==
            IF obis.err THEN Dropped ELSE scaled(obis.obis, ParseFloat(item.value))
    IN  named(convertToOBIS(item.logicalName))

\* The body of the loop over reading.Values for one item: whether an entry
\* is stored, and under which key with which value.
itemEntry(item) ==
    LET switch(obis, val) ==
            CASE item.unit = UnitW -> Stored(obis, val)
              [] item.unit = UnitWh -> Stored(obis, Quo(val, WhPerKWh))
              [] item.unit = UnitA -> Stored(obis, val)
              [] item.unit = UnitV -> Stored(obis, val)
              [] item.unit = UnitHz -> Stored(obis, val)
              [] OTHER -> Dropped
        scaled(obis, raw) ==
            IF raw.err THEN Dropped
            ELSE switch(obis, Mul(Value(raw), Pow10(item.scaler)))
        named(obis) ==
            IF obis.err THEN Dropped ELSE scaled(obis.obis, ParseFloat(item.value))
    IN  named(convertToOBIS(item.logicalName))

\* make(map[string]float64)
EmptyMap == [k \in {} |-> 0]

\* The map after the loop has run over items, a later item overwriting an
\* earlier one stored under the same key.
RECURSIVE collectValues(_)
collectValues(items) ==
    LET put(before, entry) ==
            IF entry.keep THEN (entry.obis :> entry.val) @@ before ELSE before
    IN  IF Len(items) = 0 THEN EmptyMap
        ELSE put(collectValues(SubSeq(items, 1, Len(items) - 1)),
                 itemEntry(items[Len(items)]))

\* A variant without the test of the meter identity.
getMeterValues_NoIDCheck(g, base, id) ==
    LET checked(req, values) ==
            IF Cardinality(DOMAIN values) = 0
            THEN [err |-> "no valid meter values found", values |-> EmptyMap,
                  reqs |-> <<req>>]
            ELSE [err |-> "", values |-> values, reqs |-> <<req>>]
        fetched(req, resp) ==
            IF getJSON(resp) # ""
            THEN [err |-> "failed to get meter values", values |-> EmptyMap,
                  reqs |-> <<req>>]
            ELSE checked(req, collectValues(resp.body.values))
    IN  fetched(ReadingRequest(base, id), Answer(g, ReadingRequest(base, id)))

\* A variant without the final emptiness check.
getMeterValues_EmptyOK(g, base, id) ==
    LET fetched(req, resp) ==
            IF getJSON(resp) # ""
            THEN [err |-> "failed to get meter values", values |-> EmptyMap,
                  reqs |-> <<req>>]
            ELSE [err |-> "", values |-> collectValues(resp.body.values),
                  reqs |-> <<req>>]
    IN  IF id = "" THEN [err |-> "meter ID not set", values |-> EmptyMap, reqs |-> <<>>]
        ELSE fetched(ReadingRequest(base, id), Answer(g, ReadingRequest(base, id)))

\* A variant that fails as soon as one item is rejected.
getMeterValues_Strict(g, base, id) ==
    LET checked(req, items, values) ==
            IF Cardinality(DOMAIN values) = 0
               \/ \E i \in 1..Len(items) : ~itemEntry(items[i]).keep
            THEN [err |-> "no valid meter values found", values |-> EmptyMap,
                  reqs |-> <<req>>]
            ELSE [err |-> "", values |-> values, reqs |-> <<req>>]
        fetched(req, resp) ==
            IF getJSON(resp) # ""
            THEN [err |-> "failed to get meter values", values |-> EmptyMap,
                  reqs |-> <<req>>]
            ELSE checked(req, resp.body.values, collectValues(resp.body.values))
    IN  IF id = "" THEN [err |-> "meter ID not set", values |-> EmptyMap, reqs |-> <<>>]
        ELSE fetched(ReadingRequest(base, id), Answer(g, ReadingRequest(base, id)))

\* GetMeterValues of a client with meter identity id against gateway g:
\* its error ("" for nil), the map it returns and the requests it issues.
getMeterValues(g, base, id) ==
    LET checked(req, values) ==
            IF Cardinality(DOMAIN values) = 0
            THEN [err |-> "no valid meter values found", values |-> EmptyMap,
                  reqs |-> <<req>>]
            ELSE [err |-> "", values |-> values, reqs |-> <<req>>]
        fetched(req, resp) ==
            IF getJSON(resp) # ""
            THEN [err |-> "failed to get meter values", values |-> EmptyMap,
                  reqs |-> <<req>>]
            ELSE checked(req, collectValues(resp.body.values))
    IN  IF id = "" THEN [err |-> "meter ID not set", values |-> EmptyMap, reqs |-> <<>>]
        ELSE fetched(ReadingRequest(base, id), Answer(g, ReadingRequest(base, id)))

----------------------------------------------------------------------------
(* NewClient                                                               *)

HTTP == <<"h", "t", "t", "p", ":", "/", "/">>
HTTPS == <<"h", "t", "t", "p", "s", ":", "/", "/">>

HasPrefix(s, prefix) ==
    Len(s) >= Len(prefix) /\ SubSeq(s, 1, Len(prefix)) = prefix

TrimPrefix(s, prefix) ==
    IF HasPrefix(s, prefix) THEN SubSeq(s, Len(prefix) + 1, Len(s)) ELSE s

\* defaultScheme(uri, "https")
defaultScheme(u) ==
    IF ~HasPrefix(u, HTTP) /\ ~HasPrefix(u, HTTPS) THEN HTTPS \o u ELSE u

\* The part of s left of the first sep, all of s when there is none.
Before(s, sep) ==
    LET cut(i) == IF i # -1 THEN Slice(s, 0, i) ELSE s
    IN  cut(Index(s, sep))

\* parseURIHost: the host of a URI, or an error when nothing is left.
\* parseURIHost without the cut at the port.
parseURIHost_KeepPort(u) ==
    LET result(h) ==
            IF Len(h) = 0 THEN [err |-> TRUE, host |-> <<>>]
            ELSE [err |-> FALSE, host |-> h]
    IN  result(Before(TrimPrefix(TrimPrefix(u, HTTPS), HTTP), "/"))

parseURIHost(u) ==
    LET result(h) ==
            IF Len(h) = 0 THEN [err |-> TRUE, host |-> <<>>]
            ELSE [err |-> FALSE, host |-> h]
    IN  result(Before(Before(TrimPrefix(TrimPrefix(u, HTTPS), HTTP), "/"), ":"))

NoClient(e, sent) ==
    [ok |-> FALSE, err |-> e, uri |-> <<>>, host |-> <<>>, meterID |-> "",
     reqs |-> sent]

\* NewClient without the test of the credentials.
newClient_NoCredentialCheck(g, a) ==
    LET discovered(u, h, d) ==
            IF d.err # "" THEN NoClient("failed to discover meter ID", d.reqs)
            ELSE [ok |-> TRUE, err |-> "", uri |-> u, host |-> h,
                  meterID |-> d.id, reqs |-> d.reqs]
        built(u, h) ==
            IF a.meterID = "" THEN discovered(u, h, discoverMeterID(g, u))
            ELSE [ok |-> TRUE, err |-> "", uri |-> u, host |-> h,
                  meterID |-> a.meterID, reqs |-> <<>>]
        derive(u, derived) ==
            IF derived.err THEN NoClient("host required and could not be derived", <<>>)
            ELSE built(u, derived.host)
        schemed(u) ==
            IF Len(a.hostHeader) = 0 THEN derive(u, parseURIHost(u))
            ELSE built(u, a.hostHeader)
    IN  IF Len(a.uri) = 0 THEN NoClient("uri is required", <<>>)
        ELSE schemed(defaultScheme(a.uri))

\* NewClient returning the client whatever the discovery run returned.
newClient_IgnoreFailure(g, a) ==
    LET discovered(u, h, d) ==
            [ok |-> TRUE, err |-> "", uri |-> u, host |-> h,
             meterID |-> d.id, reqs |-> d.reqs]
        built(u, h) ==
            IF a.meterID = "" THEN discovered(u, h, discoverMeterID(g, u))
            ELSE [ok |-> TRUE, err |-> "", uri |-> u, host |-> h,
                  meterID |-> a.meterID, reqs |-> <<>>]
        derive(u, derived) ==
            IF derived.err THEN NoClient("host required and could not be derived", <<>>)
            ELSE built(u, derived.host)
        schemed(u) ==
            IF Len(a.hostHeader) = 0 THEN derive(u, parseURIHost(u))
            ELSE built(u, a.hostHeader)
    IN  IF Len(a.uri) = 0 THEN NoClient("uri is required", <<>>)
        ELSE IF a.user = "" \/ a.password = ""
             THEN NoClient("credentials are required", <<>>)
        ELSE schemed(defaultScheme(a.uri))

\* NewClient(uri, user, password, meterID, hostHeader) against gateway g:
\* the client it returns, or the error, and the requests it issues.
newClient(g, a) ==
    LET discovered(u, h, d) ==
            IF d.err # "" THEN NoClient("failed to discover meter ID", d.reqs)
            ELSE [ok |-> TRUE, err |-> "", uri |-> u, host |-> h,
                  meterID |-> d.id, reqs |-> d.reqs]
        built(u, h) ==
            IF a.meterID = "" THEN discovered(u, h, discoverMeterID(g, u))
            ELSE [ok |-> TRUE, err |-> "", uri |-> u, host |-> h,
                  meterID |-> a.meterID, reqs |-> <<>>]
        derive(u, derived) ==
            IF derived.err THEN NoClient("host required and could not be derived", <<>>)
            ELSE built(u, derived.host)
        schemed(u) ==
            IF Len(a.hostHeader) = 0 THEN derive(u, parseURIHost(u))
            ELSE built(u, a.hostHeader)
    IN  IF Len(a.uri) = 0 THEN NoClient("uri is required", <<>>)
        ELSE IF a.user = "" \/ a.password = ""
             THEN NoClient("credentials are required", <<>>)
        ELSE schemed(defaultScheme(a.uri))

----------------------------------------------------------------------------
(* The logical names the conversion is exercised on: a prefix, the three   *)
(* pairs, a suffix and an optional dotted tail.                            *)

NamePrefixes ==
    { <<"0", "1", "0", "0">>,            \* the usual A and B bytes
      <<"Z", "z", "-", "+">>,            \* four bytes that are no hex digits
      <<"0xC3", "0xA9", "0", "0">>,      \* a two-byte UTF-8 character, then 00
      <<"0", "1", "0">>,                 \* one byte short
      <<"0", "1", "0", "0", "0">> }      \* one byte long

NamePairs ==
    { <<"0", "1">>, <<"1", "0">>, <<"0", "8">>, <<"1", "f">>, <<"1", "F">>,
      <<"F", "f">>, <<"f", "f">>, <<"0", "g">>, <<"G", "0">>, <<"-", "1">>,
      <<"+", "a">>, <<"1", ".">> }

NamePairsDE ==
    { <<"0", "8">>, <<"a", "B">>, <<"A", "b">>, <<"f", "F">>, <<"1", "x">>,
      <<"-", "0">>, <<".", "1">> }

NameSuffixes == { <<"f", "F">>, <<"z", "!">>, <<"f">>, <<"f", "f", "0">> }

NameTails == { <<>>, <<".", "2", "5", "5">> }

LogicalNames ==
    { p \o c \o d \o e \o s \o t :
        p \in NamePrefixes, c \in NamePairs, d \in NamePairsDE, e \in NamePairsDE,
        s \in NameSuffixes, t \in NameTails }

----------------------------------------------------------------------------
(* The callers' arguments and the gateways the client is run against       *)

MaxContracts == 3
MaxItems == 2

ContractIDs == {"A", "B", "C"}
MeterIDs == {"M", "X", "Y", "Z"}

ContractLists == UNION { [1..n -> ContractIDs] : n \in 0..MaxContracts }

\* A sensor domain is any string, the empty one included.
DomainLists == { <<>>, <<"X", "Y">>, <<"Z">>, <<"">> }

ContractsAnswers ==
    { NetError, StatusError(401) } \cup { Document(l) : l \in ContractLists }

DetailAnswers ==
    { NetError, StatusError(404), BadJSON }
        \cup { Document([sensorDomains |-> d]) : d \in DomainLists }

Name_1_8_0 == <<"0", "1", "0", "0", "0", "1", "0", "8", "0", "0", "F", "F">>
Name_1_8_0_B1 ==
    <<"0", "1", "0", "1", "0", "1", "0", "8", "0", "0", "f", "f", ".", "2", "5", "5">>
Name_16_7_0 == <<"0", "1", "0", "0", "1", "0", "0", "7", "0", "0", "F", "F">>
Name_Short == <<"0", "1", "0", "0", "0", "1", "0", "8", "0", "0", "F">>
Name_NoHexC == <<"0", "1", "0", "0", "g", "1", "0", "8", "0", "0", "F", "F">>
Name_NoHexA == <<"z", "z", "0", "0", "0", "1", "0", "8", "0", "0", "z", "z">>

Item(n, v, s, u) == [logicalName |-> n, value |-> v, scaler |-> s, unit |-> u]

GoodItem == Item(Name_16_7_0, <<"2", "3", "4", "5">>, 0, UnitW)
OddUnitItem == Item(Name_1_8_0, <<"1", "5", "0">>, 2, 255)

\* The same answer whichever meter is asked for.
ReadingOf(answer) == [id \in MeterIDs |-> answer]

Gateways(contractsAnswers, detailAnswers, readingAnswers) ==
    [contracts : contractsAnswers,
     detail : [ContractIDs -> detailAnswers],
     reading : { ReadingOf(r) : r \in readingAnswers }]

Args(uris, users, passwords, ids, hosts) ==
    [uri : uris, user : users, password : passwords, meterID : ids,
     hostHeader : hosts]

NoCall == [op |-> "", err |-> "", values |-> EmptyMap, id |-> ""]

----------------------------------------------------------------------------
(* The operations on a client                                              *)

NewClient ==
    /\ phase = "none"
    /\ \E r \in {newClient(gw, args)} :
           /\ phase' = IF r.ok THEN "ready" ELSE "failed"
           /\ uri' = r.uri
           /\ host' = r.host
           /\ meterID' = r.meterID
           /\ ret' = [op |-> "NewClient", err |-> r.err, values |-> EmptyMap, id |-> ""]
           /\ reqs' = r.reqs
    /\ UNCHANGED <<envVars, obisVars, concVars, digestVars>>

\* A variant that keeps an identity the client already holds.
DiscoverMeterID_OnlyIfEmpty ==
    /\ phase = "ready"
    /\ \E r \in {discoverMeterID(gw, uri)} :
           /\ meterID' = IF r.err = "" /\ meterID = "" THEN r.id ELSE meterID
           /\ ret' = [op |-> "DiscoverMeterID", err |-> r.err, values |-> EmptyMap,
                      id |-> ""]
           /\ reqs' = r.reqs
    /\ UNCHANGED <<phase, uri, host, envVars, obisVars, concVars, digestVars>>

\* A variant that stores whatever the run computed, also when it failed.
DiscoverMeterID_StoreAlways ==
    /\ phase = "ready"
    /\ \E r \in {discoverMeterID(gw, uri)} :
           /\ meterID' = r.id
           /\ ret' = [op |-> "DiscoverMeterID", err |-> r.err, values |-> EmptyMap,
                      id |-> ""]
           /\ reqs' = r.reqs
    /\ UNCHANGED <<phase, uri, host, envVars, obisVars, concVars, digestVars>>

DiscoverMeterID ==
    /\ phase = "ready"
    /\ \E r \in {discoverMeterID(gw, uri)} :
           /\ meterID' = IF r.err = "" THEN r.id ELSE meterID
           /\ ret' = [op |-> "DiscoverMeterID", err |-> r.err, values |-> EmptyMap,
                      id |-> ""]
           /\ reqs' = r.reqs
    /\ UNCHANGED <<phase, uri, host, envVars, obisVars, concVars, digestVars>>

\* A variant that forgets the meter identity when the poll fails.
GetMeterValues_ForgetOnError ==
    /\ phase = "ready"
    /\ \E r \in {getMeterValues(gw, uri, meterID)} :
           /\ ret' = [op |-> "GetMeterValues", err |-> r.err, values |-> r.values,
                      id |-> ""]
           /\ reqs' = r.reqs
           /\ meterID' = IF r.err = "" THEN meterID ELSE ""
    /\ UNCHANGED <<phase, uri, host, envVars, obisVars, concVars, digestVars>>

GetMeterValues ==
    /\ phase = "ready"
    /\ \E r \in {getMeterValues(gw, uri, meterID)} :
           /\ ret' = [op |-> "GetMeterValues", err |-> r.err, values |-> r.values,
                      id |-> ""]
           /\ reqs' = r.reqs
    /\ UNCHANGED <<clientVars, envVars, obisVars, concVars, digestVars>>

MeterID ==
    /\ phase = "ready"
    /\ ret' = [op |-> "MeterID", err |-> "", values |-> EmptyMap, id |-> meterID]
    /\ reqs' = <<>>
    /\ UNCHANGED <<clientVars, envVars, obisVars, concVars, digestVars>>

ClientInit(argSet, gwSet) ==
    /\ args \in argSet
    /\ gw \in gwSet
    /\ phase = "none"
    /\ uri = <<>>
    /\ host = <<>>
    /\ meterID = ""
    /\ ret = NoCall
    /\ reqs = <<>>

ObisIdle == obisIn = <<>> /\ obisOut = <<>>

GatewayURI == <<"g", "w">>

\* A fixed caller and gateway, for the specifications that do not run a client.
ClientIdle ==
    ClientInit(Args({GatewayURI}, {"user"}, {"secret"}, {"M"}, {<<>>}),
               Gateways({NetError}, {NetError}, {NetError}))

----------------------------------------------------------------------------
(* Spec: one client, from construction on, against every gateway whose     *)
(* contract list and contract documents are drawn from the sets above      *)

Init ==
    /\ ClientInit(Args({GatewayURI}, {"user"}, {"secret"}, {"", "M"}, {<<>>}),
                  Gateways(ContractsAnswers, DetailAnswers,
                           {Document([values |-> <<GoodItem>>]),
                            Document([values |-> <<OddUnitItem>>])}))
    /\ ObisIdle
    /\ ConcIdle
    /\ DigestIdle

Next == NewClient \/ DiscoverMeterID \/ GetMeterValues \/ MeterID

Spec == Init /\ [][Next]_vars

----------------------------------------------------------------------------
(* SpecValues: a client with a supplied meter identity against every       *)
(* gateway whose reading document is drawn from ReadingDocs                *)

MaxScaler == 2

ItemNames ==
    { Name_1_8_0, Name_1_8_0_B1, Name_16_7_0, Name_Short, Name_NoHexC, Name_NoHexA }

RawValues ==
    { <<"1", "5", "0">>, <<"2", "3", "4", "5">>, <<"1", "2", ".", "5">>,
      <<"-", "7">>, <<"0", ".", "0", "5">>, <<"+", "3", ".">>,
      <<"k">>, <<>>, <<"1", ".", "2", ".", "3">> }

UnitCodes == { UnitW, UnitWh, UnitA, UnitV, UnitHz, 0, 31, 255 }

\* Items that differ in what decides whether an item is kept.
StructItems ==
    { Item(n, v, 0, u) :
        n \in ItemNames, v \in { <<"2", "3", "4", "5">>, <<"k">> },
        u \in { UnitW, 255 } }

\* Items that differ in what decides the value of a kept item.
NumericItems ==
    { Item(Name_1_8_0, v, k, u) :
        v \in RawValues, k \in (0 - MaxScaler)..MaxScaler, u \in UnitCodes }

ReadingDocs ==
    { <<i>> : i \in NumericItems }
        \cup UNION { [1..n -> StructItems] : n \in 0..MaxItems }

ReadingAnswers ==
    { NetError, StatusError(500), ReadError, BadJSON }
        \cup { Document([values |-> d]) : d \in ReadingDocs }

OneContract ==
    [contracts |-> Document(<<"A">>),
     detail |-> [c \in ContractIDs |-> Document([sensorDomains |-> <<"X", "Y">>])]]

InitValues ==
    /\ ClientInit(Args({GatewayURI}, {"user"}, {"secret"}, {"M"}, {<<>>}),
                  { OneContract @@ [reading |-> ReadingOf(r)] : r \in ReadingAnswers })
    /\ ObisIdle
    /\ ConcIdle
    /\ DigestIdle

SpecValues == InitValues /\ [][Next]_vars

----------------------------------------------------------------------------
(* SpecOBIS: convertToOBIS applied to each of the logical names, and a     *)
(* client polling a gateway whose reading document holds an item of that   *)
(* name followed by a well-formed item                                     *)

NamedItem(n) == Item(n, <<"1", "5", "0">>, 2, UnitWh)

InitOBIS ==
    /\ obisIn \in LogicalNames
    /\ obisOut = <<>>
    /\ ConcIdle
    /\ DigestIdle
    /\ ClientInit(Args({GatewayURI}, {"user"}, {"secret"}, {"M"}, {<<>>}),
                  { OneContract @@
                    [reading |->
                        ReadingOf(Document([values |-> <<NamedItem(obisIn), GoodItem>>]))] })

ConvertToOBIS ==
    /\ obisIn # <<>>
    /\ obisOut = <<>>
    /\ obisOut' = <<convertToOBIS(obisIn)>>
    /\ UNCHANGED <<obisIn, envVars, clientVars, callVars, concVars, digestVars>>

NextOBIS == ConvertToOBIS \/ NewClient \/ GetMeterValues

SpecOBIS == InitOBIS /\ [][NextOBIS]_vars

----------------------------------------------------------------------------
(* SpecArgs: NewClient called with every combination of arguments drawn    *)
(* from the sets below (URIs with and without scheme, port, path and host, *)
(* empty and non-empty credentials, meter identity and host override),     *)
(* and the client's methods called on the client it returns.               *)

URIs ==
    { <<>>,
      GatewayURI,
      <<"g", "w", "/", "p">>,
      <<"g", "w", ":", "8">>,
      HTTPS \o GatewayURI,
      HTTP \o <<"g", "w", ":", "8", "/", "p">>,
      HTTPS,
      HTTP \o <<":", "8">>,
      <<"/", "p">>,
      <<":", "8", "/", "p">> }

InitArgs ==
    /\ ClientInit(Args(URIs, {"", "user"}, {"", "secret"}, {"", "M"}, {<<>>, <<"h">>}),
                  Gateways({BadJSON, Document(<<"A">>)},
                           {Document([sensorDomains |-> <<"X", "Y">>])},
                           {Document([values |-> <<GoodItem>>])}))
    /\ ObisIdle
    /\ ConcIdle
    /\ DigestIdle

SpecArgs == InitArgs /\ [][Next]_vars

----------------------------------------------------------------------------
(* SpecConc: goroutines sharing one client. The client has no lock, so     *)
(* each call is a sequence of steps that interleave with the other         *)
(* goroutines' steps: one step per request, and one step per word of the   *)
(* string header of c.meterID (data pointer, length) that a call loads or  *)
(* stores. In this specification meterID holds that header.                *)

NumProcs == 2
MaxCalls == 2

Procs == 1..NumProcs

\* The string header of the identity id.
Header(id) == [data |-> id, len |-> Len(id)]

\* The header holds the data word of one string and the length of another.
Torn(h) == h.len # Len(h.data)

Idle == [contracts |-> <<>>, i |-> 0, win |-> "", hdr |-> Header(""), calls |-> 0,
         op |-> "", err |-> ""]

ConcGateways ==
    { [contracts |-> Document(<<"A", "B">>),
       detail |-> [c \in ContractIDs |->
                      IF c = "A" THEN a ELSE Document([sensorDomains |-> <<"ZZ">>])],
       reading |-> ReadingOf(Document([values |-> <<GoodItem>>]))] :
        a \in { Document([sensorDomains |-> <<"X">>]), BadJSON } }

\* What the gateway answers to the reading request formatted from header h:
\* a torn header names no meter.
ReadingAnswer(h) ==
    IF ~Torn(h) /\ h.data \in DOMAIN gw.reading THEN gw.reading[h.data]
    ELSE StatusError(404)

\* An exchange gives the gateway's answer or fails in transit.
Exchanges(answer) == { answer, NetError }

Return(p, op, err) ==
    /\ pc' = [pc EXCEPT ![p] = "idle"]
    /\ loc' = [loc EXCEPT ![p].op = op, ![p].err = err]

Goto(p, label) == pc' = [pc EXCEPT ![p] = label]

\* What no call through the shared client touches.
ConcFrame == UNCHANGED <<envVars, phase, uri, host, callVars, obisVars, digestVars>>

\* go c.DiscoverMeterID()
GoDiscoverMeterID(p) ==
    /\ pc[p] = "idle" /\ loc[p].calls < MaxCalls
    /\ pc' = [pc EXCEPT ![p] = "contracts"]
    /\ loc' = [loc EXCEPT ![p].calls = @ + 1, ![p].contracts = <<>>, ![p].i = 0]
    /\ UNCHANGED <<meterID, wins>>
    /\ ConcFrame

\* c.getJSON(uri, &contracts)
GetContracts(p) ==
    /\ pc[p] = "contracts"
    /\ \E resp \in Exchanges(gw.contracts) :
          IF getJSON(resp) # ""
          THEN Return(p, "DiscoverMeterID", "failed to get contracts")
          ELSE IF Len(resp.body) = 0
               THEN Return(p, "DiscoverMeterID", "no contract with sensor domains found")
          ELSE /\ Goto(p, "contract")
               /\ loc' = [loc EXCEPT ![p].contracts = resp.body, ![p].i = 1]
    /\ UNCHANGED <<meterID, wins>>
    /\ ConcFrame

\* One pass of the loop body: c.getJSON(uri, &contract) and the test of
\* contract.SensorDomains.
GetContract(p) ==
    /\ pc[p] = "contract"
    /\ \E resp \in Exchanges(gw.detail[loc[p].contracts[loc[p].i]]) :
       \E out \in {contractOutcome(resp)} :
          IF out.next = "return"
          THEN /\ Goto(p, "store_data")
               /\ loc' = [loc EXCEPT ![p].win = out.id]
               /\ wins' = wins \cup {out.id}
          ELSE /\ IF loc[p].i < Len(loc[p].contracts)
                  THEN /\ Goto(p, "contract")
                       /\ loc' = [loc EXCEPT ![p].i = @ + 1]
                  ELSE Return(p, "DiscoverMeterID",
                              "no contract with sensor domains found")
               /\ UNCHANGED wins
    /\ UNCHANGED meterID
    /\ ConcFrame

\* c.meterID = contract.SensorDomains[0]: the store of the data word
StoreData(p) ==
    /\ pc[p] = "store_data"
    /\ meterID' = [meterID EXCEPT !.data = loc[p].win]
    /\ Goto(p, "store_len")
    /\ UNCHANGED <<loc, wins>>
    /\ ConcFrame

\* c.meterID = contract.SensorDomains[0]: the store of the length word
StoreLen(p) ==
    /\ pc[p] = "store_len"
    /\ meterID' = [meterID EXCEPT !.len = Len(loc[p].win)]
    /\ Return(p, "DiscoverMeterID", "")
    /\ UNCHANGED wins
    /\ ConcFrame

\* go c.GetMeterValues()
GoGetMeterValues(p) ==
    /\ pc[p] = "idle" /\ loc[p].calls < MaxCalls
    /\ pc' = [pc EXCEPT ![p] = "check"]
    /\ loc' = [loc EXCEPT ![p].calls = @ + 1]
    /\ UNCHANGED <<meterID, wins>>
    /\ ConcFrame

\* if c.meterID == "": a load of the length word
CheckMeterID(p) ==
    /\ pc[p] = "check"
    /\ IF meterID.len = 0
       THEN Return(p, "GetMeterValues", "meter ID not set")
       ELSE Goto(p, "load_data") /\ UNCHANGED loc
    /\ UNCHANGED <<meterID, wins>>
    /\ ConcFrame

\* The load of c.meterID's data word, for the reading URI or for MeterID
LoadData(p) ==
    /\ pc[p] \in {"load_data", "id_data"}
    /\ loc' = [loc EXCEPT ![p].hdr.data = meterID.data]
    /\ Goto(p, IF pc[p] = "load_data" THEN "load_len" ELSE "id_len")
    /\ UNCHANGED <<meterID, wins>>
    /\ ConcFrame

\* The load of c.meterID's length word for the reading URI
LoadLen(p) ==
    /\ pc[p] = "load_len"
    /\ loc' = [loc EXCEPT ![p].hdr.len = meterID.len]
    /\ Goto(p, "reading")
    /\ UNCHANGED <<meterID, wins>>
    /\ ConcFrame

\* c.getJSON(uri, &reading) and the loop over reading.Values
GetReading(p) ==
    /\ pc[p] = "reading"
    /\ \E resp \in Exchanges(ReadingAnswer(loc[p].hdr)) :
          IF getJSON(resp) # ""
          THEN Return(p, "GetMeterValues", "failed to get meter values")
          ELSE IF Cardinality(DOMAIN collectValues(resp.body.values)) = 0
               THEN Return(p, "GetMeterValues", "no valid meter values found")
          ELSE Return(p, "GetMeterValues", "")
    /\ UNCHANGED <<meterID, wins>>
    /\ ConcFrame

\* go c.MeterID()
GoMeterID(p) ==
    /\ pc[p] = "idle" /\ loc[p].calls < MaxCalls
    /\ pc' = [pc EXCEPT ![p] = "id_data"]
    /\ loc' = [loc EXCEPT ![p].calls = @ + 1]
    /\ UNCHANGED <<meterID, wins>>
    /\ ConcFrame

\* return c.meterID: the load of the length word
ReturnMeterID(p) ==
    /\ pc[p] = "id_len"
    /\ pc' = [pc EXCEPT ![p] = "idle"]
    /\ loc' = [loc EXCEPT ![p].hdr.len = meterID.len, ![p].op = "MeterID",
                          ![p].err = ""]
    /\ UNCHANGED <<meterID, wins>>
    /\ ConcFrame

InitConc ==
    /\ args \in Args({GatewayURI}, {"user"}, {"secret"}, {"M"}, {<<>>})
    /\ gw \in ConcGateways
    /\ phase = "ready"
    /\ uri = defaultScheme(GatewayURI)
    /\ host = GatewayURI
    /\ meterID = Header("M")
    /\ ret = NoCall
    /\ reqs = <<>>
    /\ pc = [p \in Procs |-> "idle"]
    /\ loc = [p \in Procs |-> Idle]
    /\ wins = {}
    /\ ObisIdle
    /\ DigestIdle

NextConc ==
    \E p \in Procs :
        \/ GoDiscoverMeterID(p)
        \/ GetContracts(p)
        \/ GetContract(p)
        \/ StoreData(p)
        \/ StoreLen(p)
        \/ GoGetMeterValues(p)
        \/ CheckMeterID(p)
        \/ LoadData(p)
        \/ LoadLen(p)
        \/ GetReading(p)
        \/ GoMeterID(p)
        \/ ReturnMeterID(p)

SpecConc == InitConc /\ [][NextConc]_vars

----------------------------------------------------------------------------
(* SpecDigest: the transport chain NewClient builds around the HTTP client *)
(* (digest authentication over host routing over the TLS transport). One   *)
(* caller request at a time passes through the chain; the gateway's digest *)
(* behaviour is its mode: "normal" challenges an unauthenticated request,  *)
(* accepts a request authenticated with a nonce it issued and a new        *)
(* nonce-count, and may expire the nonce instead; "always401" answers      *)
(* every request with a 401 carrying a fresh nonce; "nochallenge" answers  *)
(* 401 without a challenge header.                                         *)

MaxRequests == 4

StatusUnauthorized == 401

ServerModes == {"normal", "always401", "nochallenge"}

NoChallenge == 0

\* An outbound request as the digest transport hands it down the chain.
Plain == [auth |-> FALSE, nonce |-> NoChallenge, nc |-> 0, host |-> <<>>]

Authorized(nonce, nc) == [auth |-> TRUE, nonce |-> nonce, nc |-> nc, host |-> <<>>]

\* Host routing that leaves a request alone once it carries credentials.
hostHeaderTransport_ProbeOnly(req) ==
    IF req.auth THEN req ELSE [req EXCEPT !.host = host]

\* Host routing: the override replaces the request's authority.
hostHeaderTransport(req) == [req EXCEPT !.host = host]

\* The gateway issues nonce s.nonce + 1 in a challenge; live holds the
\* nonces it goes on accepting, each with the last nonce-count seen.
Challenge(s, live) ==
    [status |-> StatusUnauthorized, nonce |-> s.nonce + 1,
     srv |-> [s EXCEPT !.nonce = @ + 1, !.seen = live]]

\* The gateway's possible answers to req: the response's status, the nonce of
\* its challenge header (NoChallenge without one), and the gateway afterwards.
\* Every challenge carries a nonce the gateway has not issued before.
Respond(s, req) ==
    LET issue(keep) ==
            Challenge(s, [n \in keep \cup {s.nonce + 1} |->
                             IF n \in keep THEN s.seen[n] ELSE 0])
        known == DOMAIN s.seen
    IN  CASE s.mode = "always401" -> {Challenge(s, s.seen)}
          [] s.mode = "nochallenge" ->
                {[status |-> StatusUnauthorized, nonce |-> NoChallenge, srv |-> s]}
          [] OTHER ->
                IF ~req.auth THEN {issue(known)}
                ELSE IF req.nonce \in known /\ req.nc > s.seen[req.nonce]
                     THEN {[status |-> StatusOK, nonce |-> NoChallenge,
                            srv |-> [s EXCEPT !.seen[req.nonce] = req.nc]],
                           issue(known \ {req.nonce})}
                ELSE {issue(known)}

\* The exchanges of one send: the request as it leaves the chain and the
\* gateway's answer to it.
Send(req) ==
    { [req |-> out, resp |-> resp] :
        out \in {hostHeaderTransport(req)}, resp \in Respond(srv, hostHeaderTransport(req)) }

Sent(x) ==
    /\ wire' = Append(wire, x.req)
    /\ srv' = x.resp.srv

Surface(status, err) ==
    rt' = [rt EXCEPT !.pc = "done", !.sends = @ + 1, !.status = status, !.err = err]

DigestFrame == UNCHANGED <<envVars, clientVars, callVars, obisVars, concVars>>

\* The caller hands a request to the digest transport.
RoundTrip ==
    /\ rt.pc \in {"idle", "done"}
    /\ rt.n < MaxRequests
    /\ rt' = [pc |-> IF cache # <<>> THEN "cached" ELSE "probe", n |-> rt.n + 1,
              sends |-> 0, chal |-> NoChallenge, status |-> 0, err |-> ""]
    /\ UNCHANGED <<srv, cache, wire>>
    /\ DigestFrame

\* Step 1 with the cached nonce-count sent as it is, the increment left out.
SendCached_SameCount ==
    /\ rt.pc = "cached"
    /\ \E x \in Send(Authorized(cache[1].nonce, cache[1].nc)) :
          /\ Sent(x)
          /\ IF x.resp.status = StatusUnauthorized /\ x.resp.nonce # NoChallenge
             THEN /\ rt' = [rt EXCEPT !.pc = "probe", !.sends = @ + 1]
                  /\ cache' = <<>>
             ELSE /\ Surface(x.resp.status, "")
                  /\ UNCHANGED cache
    /\ DigestFrame

\* Step 1: the request is sent once with the cached challenge and an
\* incremented nonce-count; a fresh challenge in answer invalidates the cache.
SendCached ==
    /\ rt.pc = "cached"
    /\ \E x \in Send(Authorized(cache[1].nonce, cache[1].nc + 1)) :
          /\ Sent(x)
          /\ IF x.resp.status # StatusUnauthorized
             THEN /\ Surface(x.resp.status, "")
                  /\ cache' = <<[cache[1] EXCEPT !.nc = @ + 1]>>
             ELSE IF x.resp.nonce # NoChallenge
                  THEN /\ rt' = [rt EXCEPT !.pc = "probe", !.sends = @ + 1]
                       /\ cache' = <<>>
             ELSE /\ Surface(x.resp.status, "")
                  /\ cache' = <<[cache[1] EXCEPT !.nc = @ + 1]>>
    /\ DigestFrame

\* Step 2: the request is sent unauthenticated and a challenge is expected.
SendProbe ==
    /\ rt.pc = "probe"
    /\ \E x \in Send(Plain) :
          /\ Sent(x)
          /\ IF x.resp.status = StatusUnauthorized /\ x.resp.nonce # NoChallenge
             THEN rt' = [rt EXCEPT !.pc = "retry", !.sends = @ + 1,
                                   !.chal = x.resp.nonce]
             ELSE Surface(x.resp.status, "AuthenticationError")
    /\ UNCHANGED cache
    /\ DigestFrame

\* Steps 3 and 4 with a second challenge in place of the response: the
\* transport answers every challenge it is given.
SendRetry_Again ==
    /\ rt.pc = "retry"
    /\ \E x \in Send(Authorized(rt.chal, 1)) :
          /\ Sent(x)
          /\ IF x.resp.status = StatusUnauthorized /\ x.resp.nonce # NoChallenge
             THEN /\ rt' = [rt EXCEPT !.sends = @ + 1, !.chal = x.resp.nonce]
                  /\ UNCHANGED cache
             ELSE /\ Surface(x.resp.status, "")
                  /\ cache' = <<[nonce |-> rt.chal, nc |-> 1]>>
    /\ DigestFrame

\* Steps 3 and 4: the request is resent exactly once with the Authorization
\* header computed from the challenge; a successful exchange caches the
\* challenge, and any response is the caller's.
SendRetry ==
    /\ rt.pc = "retry"
    /\ \E x \in Send(Authorized(rt.chal, 1)) :
          /\ Sent(x)
          /\ Surface(x.resp.status, "")
          /\ cache' = IF x.resp.status = StatusUnauthorized THEN cache
                      ELSE <<[nonce |-> rt.chal, nc |-> 1]>>
    /\ DigestFrame

\* The client NewClient returned for the arguments, with its chain unused.
InitDigest ==
    /\ args \in Args({GatewayURI}, {"user"}, {"secret"}, {"M"}, {<<>>, <<"h">>})
    /\ gw \in Gateways({NetError}, {NetError}, {NetError})
    /\ phase = "ready"
    /\ uri = newClient(gw, args).uri
    /\ host = newClient(gw, args).host
    /\ meterID = "M"
    /\ ret = NoCall
    /\ reqs = <<>>
    /\ ObisIdle
    /\ ConcIdle
    /\ srv \in [mode : ServerModes, nonce : {0}, seen : {<<>>}]
    /\ cache = <<>>
    /\ rt = [pc |-> "idle", n |-> 0, sends |-> 0, chal |-> NoChallenge,
             status |-> 0, err |-> ""]
    /\ wire = <<>>

NextDigest == RoundTrip \/ SendCached \/ SendProbe \/ SendRetry

SpecDigest == InitDigest /\ [][NextDigest]_vars

----------------------------------------------------------------------------
(* SpecPoll: several callers polling through one client, so that their     *)
(* requests pass through the one digest transport at the same time. The    *)
(* cached challenge is shared; what section 5 of the specification makes   *)
(* one mutual-exclusion region is one step here (the read-increment-write  *)
(* of the nonce-count, the invalidation and the replacement of the cached  *)
(* challenge), and each exchange with the gateway is a step of its own.    *)
(* In this specification rt holds one record per caller and a challenge    *)
(* carries its opaque value next to its nonce.                             *)

MaxPolls == 3

\* The opaque value the gateway sends with the challenge that carries nonce.
Opaque(nonce) == nonce + 100

NoCredentials == [nonce |-> NoChallenge, nc |-> 0, opaque |-> NoChallenge]

\* A request with the credentials cred, or without credentials.
Request(auth, cred) ==
    [auth |-> auth, nonce |-> cred.nonce, nc |-> cred.nc, host |-> <<>>,
     opaque |-> cred.opaque]

Finish(p, status, err) ==
    rt' = [rt EXCEPT ![p].pc = "done", ![p].status = status, ![p].err = err]

\* The caller requests handed to the transport by the callers 1..k.
RECURSIVE Polls(_)
Polls(k) == IF k = 0 THEN 0 ELSE rt[k].n + Polls(k - 1)

\* A caller hands a request to the digest transport.
Poll(p) ==
    /\ rt[p].pc \in {"idle", "done"}
    /\ Polls(NumProcs) < MaxPolls
    /\ rt' = [rt EXCEPT ![p] = [pc |-> "begin", n |-> rt[p].n + 1,
                                cred |-> NoCredentials, status |-> 0, err |-> ""]]
    /\ UNCHANGED <<srv, cache, wire>>
    /\ DigestFrame

\* The region with the write of the incremented count left out.
Reserve_NoWriteBack(p) ==
    /\ rt[p].pc = "begin"
    /\ IF cache = <<>>
       THEN rt' = [rt EXCEPT ![p].pc = "probe"]
       ELSE rt' = [rt EXCEPT ![p].pc = "cached",
                             ![p].cred = [cache[1] EXCEPT !.nc = @ + 1]]
    /\ UNCHANGED <<srv, cache, wire>>
    /\ DigestFrame

\* Step 1, in the region: the cached challenge is read whole and its
\* nonce-count incremented.
Reserve(p) ==
    /\ rt[p].pc = "begin"
    /\ IF cache = <<>>
       THEN /\ rt' = [rt EXCEPT ![p].pc = "probe"]
            /\ UNCHANGED cache
       ELSE /\ rt' = [rt EXCEPT ![p].pc = "cached",
                                ![p].cred = [cache[1] EXCEPT !.nc = @ + 1]]
            /\ cache' = <<[cache[1] EXCEPT !.nc = @ + 1]>>
    /\ UNCHANGED <<srv, wire>>
    /\ DigestFrame

\* Step 1, the exchange: a fresh challenge in answer invalidates the cached
\* challenge this request was built from.
SendReserved(p) ==
    /\ rt[p].pc = "cached"
    /\ \E x \in Send(Request(TRUE, rt[p].cred)) :
          /\ Sent(x)
          /\ IF x.resp.status = StatusUnauthorized /\ x.resp.nonce # NoChallenge
             THEN /\ rt' = [rt EXCEPT ![p].pc = "probe"]
                  /\ cache' = IF cache # <<>> /\ cache[1].nonce = rt[p].cred.nonce
                              THEN <<>> ELSE cache
             ELSE /\ Finish(p, x.resp.status, "")
                  /\ UNCHANGED cache
    /\ DigestFrame

\* Step 2: the request is sent unauthenticated and a challenge is expected.
Probe(p) ==
    /\ rt[p].pc = "probe"
    /\ \E x \in Send(Request(FALSE, NoCredentials)) :
          /\ Sent(x)
          /\ IF x.resp.status = StatusUnauthorized /\ x.resp.nonce # NoChallenge
             THEN rt' = [rt EXCEPT ![p].pc = "retry",
                                   ![p].cred = [nonce |-> x.resp.nonce, nc |-> 1,
                                                opaque |-> Opaque(x.resp.nonce)]]
             ELSE Finish(p, x.resp.status, "AuthenticationError")
    /\ UNCHANGED cache
    /\ DigestFrame

\* Steps 3 and 4: the one resend; after a successful exchange the challenge
\* replaces the cached one, whole and in the region.
Retry(p) ==
    /\ rt[p].pc = "retry"
    /\ \E x \in Send(Request(TRUE, rt[p].cred)) :
          /\ Sent(x)
          /\ Finish(p, x.resp.status, "")
          /\ cache' = IF x.resp.status = StatusUnauthorized THEN cache
                      ELSE <<rt[p].cred>>
    /\ DigestFrame

InitPoll ==
    /\ args \in Args({GatewayURI}, {"user"}, {"secret"}, {"M"}, {<<"h">>})
    /\ gw \in Gateways({NetError}, {NetError}, {NetError})
    /\ phase = "ready"
    /\ uri = newClient(gw, args).uri
    /\ host = newClient(gw, args).host
    /\ meterID = "M"
    /\ ret = NoCall
    /\ reqs = <<>>
    /\ ObisIdle
    /\ ConcIdle
    /\ srv \in [mode : {"normal", "always401"}, nonce : {0}, seen : {<<>>}]
    /\ cache = <<>>
    /\ rt = [p \in Procs |-> [pc |-> "idle", n |-> 0, cred |-> NoCredentials,
                              status |-> 0, err |-> ""]]
    /\ wire = <<>>

NextPoll ==
    \E p \in Procs : Poll(p) \/ Reserve(p) \/ SendReserved(p) \/ Probe(p) \/ Retry(p)

SpecPoll == InitPoll /\ [][NextPoll]_vars

----------------------------------------------------------------------------
(* Properties of DiscoverMeterID (under Spec)                              *)

\* getJSON returned nil for this answer: it was received with status 200,
\* read and decoded.
Fetched(answer) ==
    answer.sent /\ answer.status = StatusOK /\ answer.read /\ answer.json

\* The contract identifiers the enumeration endpoint returned.
ContractList == IF Fetched(gw.contracts) THEN gw.contracts.body ELSE <<>>

\* The i-th listed contract has a detail document with a sensor domain.
Eligible(i) ==
    /\ Fetched(gw.detail[ContractList[i]])
    /\ Len(gw.detail[ContractList[i]].body.sensorDomains) > 0

FirstEligible(i) == Eligible(i) /\ \A j \in 1..(i - 1) : ~Eligible(j)

\* Contracts [A (no domains), B (domains X, Y), C (domains Z)].
ExampleGateway ==
    /\ ContractList = <<"A", "B", "C">>
    /\ gw.detail["A"] = Document([sensorDomains |-> <<>>])
    /\ gw.detail["B"] = Document([sensorDomains |-> <<"X", "Y">>])
    /\ gw.detail["C"] = Document([sensorDomains |-> <<"Z">>])

\* C1: when DiscoverMeterID has run against a gateway that lists an eligible
\* contract, it returned nil and the meter identity is the first sensor
\* domain of the first eligible contract in list order; against contracts
\* [A (none), B (X, Y), C (Z)] the identity is X.
C1_FirstEligibleFirstDomain ==
    ret.op = "DiscoverMeterID" =>
        /\ (\E i \in 1..Len(ContractList) : Eligible(i)) =>
              /\ ret.err = ""
              /\ \E i \in 1..Len(ContractList) :
                    /\ FirstEligible(i)
                    /\ meterID = gw.detail[ContractList[i]].body.sensorDomains[1]
        /\ ExampleGateway => meterID = "X"

C1_Witness ==
    /\ ret.op = "DiscoverMeterID"
    /\ ExampleGateway
    /\ args.meterID = "M"
    /\ meterID = "X"

\* C2: when DiscoverMeterID has run, a detail fetch that failed before any
\* eligible contract was requested and was followed by the request for the
\* next identifier, and the call returned an error only if no listed
\* contract has a fetched, non-empty sensor-domain list.
C2_FailedFetchSkipped ==
    ret.op = "DiscoverMeterID" =>
        /\ ret.err # "" => \A i \in 1..Len(ContractList) : ~Eligible(i)
        /\ \A j \in 1..Len(ContractList) :
              (/\ ~Fetched(gw.detail[ContractList[j]])
               /\ \A k \in 1..(j - 1) : ~Eligible(k)) =>
                  /\ Len(reqs) >= j + 1
                  /\ reqs[j + 1] = ContractRequest(uri, ContractList[j])
                  /\ j < Len(ContractList) =>
                        /\ Len(reqs) >= j + 2
                        /\ reqs[j + 2] = ContractRequest(uri, ContractList[j + 1])

C2_Witness ==
    /\ ret.op = "DiscoverMeterID"
    /\ ret.err = ""
    /\ \E i \in 1..Len(ContractList) :
          /\ FirstEligible(i)
          /\ \E j \in 1..(i - 1) : ~Fetched(gw.detail[ContractList[j]])
          /\ meterID = gw.detail[ContractList[i]].body.sensorDomains[1]

----------------------------------------------------------------------------
(* Properties of GetMeterValues (under SpecValues)                         *)

KnownUnits == { UnitW, UnitWh, UnitA, UnitV, UnitHz }

\* The item passes the three per-item checks.
Survives(item) ==
    /\ ~convertToOBIS(item.logicalName).err
    /\ ~ParseFloat(item.value).err
    /\ item.unit \in KnownUnits

\* The last call was GetMeterValues and its reading document was decoded.
Polled == ret.op = "GetMeterValues" /\ meterID # "" /\ Fetched(gw.reading[meterID])

\* The items of the reading document the last call decoded.
Items == gw.reading[meterID].body.values

KeyOf(item) == convertToOBIS(item.logicalName).obis

\* C3: once the reading document is decoded, GetMeterValues returns an error
\* exactly when no item survives, the error is the no-data error, and a map
\* returned with a nil error is never empty.
C3_ErrorIffNoSurvivor ==
    Polled =>
        /\ ret.err # "" <=> \A i \in 1..Len(Items) : ~Survives(Items[i])
        /\ ret.err # "" => ret.err = "no valid meter values found"
        /\ ret.err = "" => DOMAIN ret.values # {}

C3_Witness ==
    /\ Polled
    /\ Len(Items) > 0
    /\ \A i \in 1..Len(Items) :
          /\ ~convertToOBIS(Items[i].logicalName).err
          /\ ~ParseFloat(Items[i].value).err
          /\ Items[i].unit \notin KnownUnits
    /\ ret.err = "no valid meter values found"

\* C4: the keys of the map GetMeterValues returns are exactly the OBIS keys
\* of the items whose name decodes, whose value parses and whose unit code
\* is 27, 30, 33, 35 or 44; an item with another unit code adds no key and
\* does not make the call fail.
C4_KeysAreSurvivors ==
    Polled =>
        /\ ret.err = "" =>
              DOMAIN ret.values =
                  { KeyOf(Items[i]) : i \in { j \in 1..Len(Items) : Survives(Items[j]) } }
        /\ (\E i \in 1..Len(Items) : Survives(Items[i])) => ret.err = ""

C4_Witness ==
    /\ Polled
    /\ ret.err = ""
    /\ \E i, j \in 1..Len(Items) :
          /\ Survives(Items[i])
          /\ ~convertToOBIS(Items[j].logicalName).err
          /\ ~ParseFloat(Items[j].value).err
          /\ Items[j].unit \notin KnownUnits
          /\ KeyOf(Items[j]) \notin DOMAIN ret.values

RECURSIVE TenTo(_)
TenTo(n) == IF n = 0 THEN 1 ELSE 10 * TenTo(n - 1)

\* x and y, each m * 10^e, are the same number.
SameNumber(x, y) ==
    LET lo == IF x.e < y.e THEN x.e ELSE y.e
    IN  x.m * TenTo(x.e - lo) = y.m * TenTo(y.e - lo)

\* raw * 10^scaler, divided by 1000 for unit code 30.
Expected(item) ==
    [m |-> ParseFloat(item.value).m,
     e |-> ParseFloat(item.value).e + item.scaler
           - (IF item.unit = UnitWh THEN 3 ELSE 0)]

\* The last surviving item stored under key k.
Writer(k) ==
    CHOOSE i \in 1..Len(Items) :
        /\ Survives(Items[i]) /\ KeyOf(Items[i]) = k
        /\ \A j \in (i + 1)..Len(Items) : ~(Survives(Items[j]) /\ KeyOf(Items[j]) = k)

Key_1_8_0 == <<"1", ".", "8", ".", "0">>

\* C7: every value of the returned map is raw * 10^scaler of the item stored
\* under its key, divided by 1000 when the item's unit code is 30; unit 30,
\* scaler 2, raw 150 gives 15 and unit 27, scaler 0, raw 2345 gives 2345.
C7_ScaledValue ==
    (Polled /\ ret.err = "") =>
        /\ \A k \in DOMAIN ret.values :
              SameNumber(ret.values[k], Expected(Items[Writer(k)]))
        /\ Items = <<Item(Name_1_8_0, <<"1", "5", "0">>, 2, UnitWh)>> =>
              ret.values[Key_1_8_0] = [m |-> 15, e |-> 0]
        /\ Items = <<Item(Name_1_8_0, <<"2", "3", "4", "5">>, 0, UnitW)>> =>
              ret.values[Key_1_8_0] = [m |-> 2345, e |-> 0]

C7_Witness ==
    /\ Polled
    /\ ret.err = ""
    /\ Items = <<Item(Name_1_8_0, <<"1", "5", "0">>, 2, UnitWh)>>
    /\ ret.values[Key_1_8_0] = [m |-> 15, e |-> 0]

----------------------------------------------------------------------------
(* Properties of convertToOBIS (under SpecOBIS)                            *)

HexChars ==
    { "0", "1", "2", "3", "4", "5", "6", "7", "8", "9",
      "a", "b", "c", "d", "e", "f", "A", "B", "C", "D", "E", "F" }

\* The segment of a name left of its first '.'.
LeftSegment(name) ==
    IF \E i \in 1..Len(name) : name[i] = "."
    THEN SubSeq(name, 1,
                (CHOOSE i \in 1..Len(name) :
                    name[i] = "." /\ \A j \in 1..(i - 1) : name[j] # ".") - 1)
    ELSE name

\* The left segment is exactly 12 hexadecimal characters.
TwelveHex(name) ==
    /\ Len(LeftSegment(name)) = 12
    /\ \A i \in 1..12 : LeftSegment(name)[i] \in HexChars

\* What the last GetMeterValues call returned for the document that holds
\* the item named obisIn and then the well-formed item.
PolledNamed == ret.op = "GetMeterValues" /\ obisIn # <<>>

\* C5: convertToOBIS returns a key only for a name whose left segment is
\* exactly 12 hexadecimal characters, and the item of a rejected name is
\* left out of the map GetMeterValues returns while the call still succeeds
\* with the other item.
C5_OnlyTwelveHexAccepted ==
    /\ (obisOut # <<>> /\ ~obisOut[1].err) => TwelveHex(obisIn)
    /\ (PolledNamed /\ ~TwelveHex(obisIn)) =>
          /\ ret.err = ""
          /\ DOMAIN ret.values = { KeyOf(GoodItem) }

ToUpper(name) ==
    [i \in 1..Len(name) |->
        IF IndexIn(LowerLetters, name[i]) # 0
        THEN UpperLetters[IndexIn(LowerLetters, name[i])]
        ELSE name[i]]

ToLower(name) ==
    [i \in 1..Len(name) |->
        IF IndexIn(UpperLetters, name[i]) # 0
        THEN LowerLetters[IndexIn(UpperLetters, name[i])]
        ELSE name[i]]

\* C6: for a name whose left segment is 12 hexadecimal characters,
\* convertToOBIS returns a key, and it is the key it returns for the name
\* written in upper case and for the name written in lower case.
C6_CaseInsensitive ==
    (obisOut # <<>> /\ TwelveHex(obisIn)) =>
        /\ ~obisOut[1].err
        /\ obisOut[1] = convertToOBIS(ToUpper(obisIn))
        /\ obisOut[1] = convertToOBIS(ToLower(obisIn))

C6_Witness ==
    /\ obisOut # <<>>
    /\ TwelveHex(obisIn)
    /\ ToUpper(obisIn) # obisIn
    /\ ToLower(obisIn) # obisIn
    /\ ~obisOut[1].err

----------------------------------------------------------------------------
(* Properties of the meter identity (under Spec)                           *)

\* The identity a DiscoverMeterID call against the gateway stores.
Winner ==
    gw.detail[ContractList[CHOOSE i \in 1..Len(ContractList) : FirstEligible(i)]]
        .body.sensorDomains[1]

\* C8: a meter identity supplied at construction is the client's meter
\* identity in every state thereafter.
C8_SuppliedNeverChanges ==
    (phase = "ready" /\ args.meterID # "") => meterID = args.meterID

\* C8, amended: NewClient stores a supplied meter identity as it is, and
\* from then on the identity changes only in a DiscoverMeterID call that
\* returns nil, which overwrites it with the discovered identity.
C8_ChangedOnlyByDiscovery ==
    /\ [](ret.op = "NewClient" /\ phase = "ready" /\ args.meterID # ""
            => meterID = args.meterID /\ reqs = <<>>)
    /\ [][(phase = "ready" /\ meterID' # meterID) =>
            /\ ret'.op = "DiscoverMeterID"
            /\ ret'.err = ""
            /\ \E i \in 1..Len(ContractList) : Eligible(i)
            /\ meterID' = Winner]_vars

C8_Witness ==
    /\ args.meterID = "M"
    /\ ret.op = "DiscoverMeterID"
    /\ ret.err # ""
    /\ meterID = "M"

----------------------------------------------------------------------------
(* Properties of the shared meter identity (under SpecConc)                *)

\* The goroutine's next step stores a word of c.meterID.
Writing(p) == pc[p] \in {"store_data", "store_len"}

\* The goroutine's next step loads a word of c.meterID.
Reading(p) == pc[p] \in {"check", "load_data", "load_len", "id_data", "id_len"}

\* C9: no store of the meter identity is pending while another goroutine has
\* a load or a store of it pending, and once every call has returned the
\* identity is the supplied one or one that a discovery run computed.
C9_NoRaceAndOneWinner ==
    /\ \A p, q \in Procs :
          (p # q /\ Writing(p)) => ~(Writing(q) \/ Reading(q))
    /\ (\A p \in Procs : pc[p] = "idle") =>
          meterID \in { Header(id) : id \in {"M"} \cup wins }

----------------------------------------------------------------------------
(* Properties of the digest transport (under SpecDigest)                   *)

\* The requests sent for the caller request in progress or just answered.
SentNow == SubSeq(wire, Len(wire) - rt.sends + 1, Len(wire))

\* C10: against a gateway that answers every request with a 401 carrying a
\* fresh nonce, a caller request causes at most two requests, and when it
\* is answered exactly two were sent, the original without credentials and
\* one authenticated retry, and the caller holds the gateway's 401.
C10_OneRetryNoLoop ==
    srv.mode = "always401" =>
        /\ rt.sends <= 2
        /\ rt.pc = "done" =>
              /\ rt.sends = 2
              /\ ~SentNow[1].auth /\ SentNow[2].auth
              /\ rt.status = StatusUnauthorized /\ rt.err = ""

\* Such a gateway has answered the last of several caller requests.
C10_Witness ==
    /\ srv.mode = "always401"
    /\ rt.pc = "done" /\ rt.n = MaxRequests
    /\ rt.sends = 2 /\ rt.status = StatusUnauthorized

\* The positions on the wire of the requests that carry credentials.
Credentialed == { i \in DOMAIN wire : wire[i].auth }

----------------------------------------------------------------------------
(* Properties of the shared digest transport (under SpecPoll)              *)

----------------------------------------------------------------------------
(* Properties of host routing (under SpecDigest)                           *)

\* C13: every request that reaches the base transport carries the client's
\* routing host, which is the override whenever one was given: the probe
\* without credentials, the authenticated retry and the requests that reuse
\* the cached challenge alike.
C13_OverrideOnEveryRequest ==
    \A i \in DOMAIN wire :
        /\ wire[i].host = host
        /\ Len(args.hostHeader) > 0 => wire[i].host = args.hostHeader

\* With an override given, a probe, its retry and a request reusing the
\* cached challenge have reached the base transport.
C13_Witness ==
    /\ Len(args.hostHeader) > 0
    /\ \E i, j, k \in DOMAIN wire :
          /\ ~wire[i].auth
          /\ wire[j].auth /\ wire[j].nc = 1
          /\ wire[k].auth /\ wire[k].nc > 1

----------------------------------------------------------------------------
(* Properties of NewClient (under Spec)                                    *)

\* Some listed contract is eligible.
Discoverable == \E i \in 1..Len(ContractList) : Eligible(i)

\* C14: when NewClient has returned for an empty meterID, discovery has run
\* (its requests were issued, the enumeration request first); the call
\* returned a client holding the discovered identity if a contract is
\* eligible and an error and no client if none is. For a non-empty meterID
\* it issued no request and the client holds the supplied identity.
C14_DiscoveryAtConstruction ==
    ret.op = "NewClient" =>
        IF args.meterID = ""
        THEN /\ Len(reqs) >= 1
             /\ reqs[1] = ContractsRequest(defaultScheme(args.uri))
             /\ Discoverable =>
                   phase = "ready" /\ ret.err = "" /\ meterID = Winner
             /\ ~Discoverable =>
                   /\ phase = "failed" /\ ret.err = "failed to discover meter ID"
                   /\ meterID = "" /\ uri = <<>>
        ELSE /\ phase = "ready" /\ ret.err = ""
             /\ reqs = <<>>
             /\ meterID = args.meterID

\* NewClient failed after discovery had asked for a contract document.
C14_Witness ==
    /\ ret.op = "NewClient"
    /\ args.meterID = ""
    /\ phase = "failed"
    /\ Len(reqs) > 1

----------------------------------------------------------------------------
(* Properties of NewClient's arguments (under SpecArgs)                    *)

SchemeLess ==
    LET u == defaultScheme(args.uri)
    IN  IF HasPrefix(u, HTTPS) THEN SubSeq(u, Len(HTTPS) + 1, Len(u))
        ELSE SubSeq(u, Len(HTTP) + 1, Len(u))

\* The scheme-less URI up to its port and path: its bytes before the first
\* "/" or ":".
HostPart ==
    LET stops == { i \in 1..Len(SchemeLess) : SchemeLess[i] \in {"/", ":"} }
    IN  IF stops = {} THEN SchemeLess
        ELSE SubSeq(SchemeLess, 1, (CHOOSE i \in stops : \A j \in stops : i <= j) - 1)

\* NewClient got a uri and credentials, so that the routing host decides.
HostDecides ==
    /\ ret.op = "NewClient"
    /\ Len(args.uri) > 0 /\ args.user # "" /\ args.password # ""

----------------------------------------------------------------------------
(* Properties of a client without meter identity (under Spec)              *)

\* C16: when GetMeterValues has returned on a client whose meter identity
\* is empty, it returned the error "meter ID not set" and no values, and
\* it issued no request.
C16_NoIdentityNoRequest ==
    (ret.op = "GetMeterValues" /\ meterID = "") =>
        /\ ret.err = "meter ID not set"
        /\ ret.values = EmptyMap
        /\ reqs = <<>>

\* GetMeterValues has returned on a client that holds no meter identity.
C16_Witness ==
    /\ phase = "ready"
    /\ ret.op = "GetMeterValues"
    /\ meterID = ""
    /\ ret.err = "meter ID not set"

----------------------------------------------------------------------------
(* Properties of repeated discovery (under Spec)                           *)

----------------------------------------------------------------------------
(* Properties of the requests of discovery (under Spec)                    *)

\* The number of contract documents a discovery run asks for: up to the
\* first eligible contract, or all that are listed.
Asked ==
    IF Discoverable
    THEN CHOOSE i \in 1..Len(ContractList) : FirstEligible(i)
    ELSE Len(ContractList)

\* C19: when DiscoverMeterID has returned, its requests are the enumeration
\* request, once and first, followed by the requests for the contract
\* documents in the order of the list, up to the first eligible contract
\* and no further.
C19_InOrderUpToWinner ==
    ret.op = "DiscoverMeterID" =>
        /\ Len(reqs) = 1 + Asked
        /\ reqs[1] = ContractsRequest(uri)
        /\ \A k \in 1..Asked : reqs[k + 1] = ContractRequest(uri, ContractList[k])

\* Against contracts [A (no domains), B (X, Y), C (Z)] discovery has asked
\* for the list, for A and for B.
C19_Witness ==
    /\ ret.op = "DiscoverMeterID"
    /\ ExampleGateway
    /\ Len(reqs) = 3

----------------------------------------------------------------------------
(* Properties of a constructed client's identity (under Spec)              *)

\* C20: a client that NewClient returned holds a non-empty meter identity
\* in every state, and GetMeterValues on it never returns the error
\* "meter ID not set".
C20_IdentityNeverEmpty ==
    phase = "ready" =>
        /\ meterID # ""
        /\ ret.op = "GetMeterValues" => ret.err # "meter ID not set"

----------------------------------------------------------------------------
(* Properties of what the calls leave alone (under Spec)                   *)

\* C21: a step in which DiscoverMeterID returns an error leaves the meter
\* identity as it was, and a step in which GetMeterValues returns, with or
\* without an error, leaves the meter identity, the URI, the routing host
\* and the client itself as they were.
C21_FailuresChangeNothing ==
    /\ [][(ret'.op = "DiscoverMeterID" /\ ret'.err # "") =>
            meterID' = meterID /\ uri' = uri /\ host' = host /\ phase' = phase]_vars
    /\ [][ret'.op = "GetMeterValues" =>
            meterID' = meterID /\ uri' = uri /\ host' = host /\ phase' = phase]_vars

\* A poll has failed on a client that still holds the identity it
\* discovered at construction.
C21_Witness ==
    /\ ret.op = "GetMeterValues"
    /\ ret.err = "no valid meter values found"
    /\ args.meterID = ""
    /\ meterID = "X"

----------------------------------------------------------------------------
(* Properties of the components of an OBIS key (under SpecOBIS)            *)

HexTable ==
    << "0", "1", "2", "3", "4", "5", "6", "7", "8", "9",
       "a", "b", "c", "d", "e", "f" >>

\* The value of one hex digit, or -1 for any other byte.
HexDigitValue(ch) ==
    IF \E i \in 1..Len(HexTable) : HexTable[i] = ToLower(<<ch>>)[1]
    THEN (CHOOSE i \in 1..Len(HexTable) : HexTable[i] = ToLower(<<ch>>)[1]) - 1
    ELSE -1

IsHexPair(seg, at) ==
    /\ Len(seg) >= at + 1
    /\ HexDigitValue(seg[at]) >= 0
    /\ HexDigitValue(seg[at + 1]) >= 0

\* The value of the hex digit pair at bytes at, at+1 (counted from 1).
HexPairValue(seg, at) ==
    16 * HexDigitValue(seg[at]) + HexDigitValue(seg[at + 1])

\* A number of 0..255 in decimal, without sign or leading zeros.
Unsigned(n) ==
    IF n < 10 THEN << Digits[n + 1] >>
    ELSE IF n < 100 THEN << Digits[(n \div 10) + 1], Digits[(n % 10) + 1] >>
    ELSE << Digits[(n \div 100) + 1], Digits[((n \div 10) % 10) + 1],
            Digits[(n % 10) + 1] >>

\* C22: whenever convertToOBIS accepts a name, the bytes at offsets 4-5, 6-7
\* and 8-9 of its left segment are hex digit pairs, each pair's value lies in
\* 0..255, and the key is the three values in unsigned decimal without
\* leading zeros, joined by dots.
C22_ComponentsAreHexPairValues ==
    (obisOut # <<>> /\ ~obisOut[1].err) =>
        LET seg == LeftSegment(obisIn)
        IN  /\ IsHexPair(seg, OffsetC + 1)
            /\ IsHexPair(seg, OffsetD + 1)
            /\ IsHexPair(seg, OffsetE + 1)
            /\ HexPairValue(seg, OffsetC + 1) \in 0..255
            /\ HexPairValue(seg, OffsetD + 1) \in 0..255
            /\ HexPairValue(seg, OffsetE + 1) \in 0..255
            /\ obisOut[1].obis =
                   Unsigned(HexPairValue(seg, OffsetC + 1)) \o <<".">> \o
                   Unsigned(HexPairValue(seg, OffsetD + 1)) \o <<".">> \o
                   Unsigned(HexPairValue(seg, OffsetE + 1))

\* The same statement for names of twelve hex digits, the names for which
\* the code and the description agree.
C22_HexNamesOnly ==
    TwelveHex(obisIn) => C22_ComponentsAreHexPairValues

====
